---- MODULE Spec2Model ----
(***************************************************************************)
(* The points wallet of the mazeloo backend: the task-submit and           *)
(* claim-bonus handlers of the two backends (the Supabase handlers and the *)
(* MySQL handlers), the admin task endpoints and the wallet summary, over  *)
(* the users, tasks, submissions and wallet_transactions tables; and the   *)
(* account endpoints (signup, profile, password, verification, admin ban   *)
(* and approval, notification reads) over the other columns of users.      *)
(*                                                                         *)
(* Every await of a handler is one step, so concurrent requests interleave *)
(* exactly where the event loop can switch between them.                   *)
(***************************************************************************)
EXTENDS Integers, Naturals, Sequences, FiniteSets, TLC

VARIABLES
    backend,              \* which build serves the requests
    users,                \* users table: id -> the five balance columns
    tasks,                \* tasks table: id -> [reward_points, is_active]
    task_views,           \* submission rows of the Supabase handlers
    task_submissions,     \* submission rows of the MySQL handlers
    wallet_transactions,  \* ledger events
    reqs,                 \* the requests: position, locals, response
    faults,               \* datastore calls that failed so far
    adminOps,             \* admin task requests served so far
    accounts,             \* users table: id -> the account columns
    referrals,            \* referrals table: (referrer_id, referred_id) rows
    notifications,        \* notifications table: id -> [user_id, is_read]
    verification_codes,   \* verification_codes table: rows by (user_id, type)
    verifications,        \* verifications table: id -> request row
    calls,                \* the account requests: position, locals, response
    twin,                 \* a MySQL and a Supabase deployment served in step
    presented,            \* the Authorization header of each account request
    posts,                \* posts table: id -> likes_count
    post_likes,           \* post_likes table: (post_id, user_id) rows
    stories,              \* stories table: id -> views_count
    story_views           \* story_views table: (story_id, user_id) rows

\* the state of the account endpoints
\* the state of the social endpoints
socialVars == <<posts, post_likes, stories, story_views>>

acctVars == <<accounts, referrals, notifications, verification_codes,
              verifications, calls, twin, presented, socialVars>>

\* the state of the wallet endpoints, the users balances aside
ledgerVars == <<tasks, task_views, task_submissions, wallet_transactions,
                reqs, adminOps, twin, presented, socialVars>>

vars == <<backend, users, tasks, task_views, task_submissions,
          wallet_transactions, reqs, faults, adminOps, accounts, referrals,
          notifications, verification_codes, verifications, calls, twin,
          presented, posts, post_likes, stories, story_views>>

----------------------------------------------------------------------------
(* Bounds of the model *)

MaxReq == 2

\* datastore failures plus admin task requests, together
MaxEnv == 1

\* account requests (signup, profile, wallet summary, ...) served
MaxCall == 2

\* requests served to the two deployments side by side
MaxServed == 3

----------------------------------------------------------------------------
(* Program constants and input sets *)

VerificationBonus == 20

\* accounts that exist (rows of users); "ghost" is an id carried by a valid
\* token for which users has no row
UserIds == {"A"}

GhostId == "ghost"

RequestUids == UserIds \cup {GhostId}

\* tasks present from the start, and the ids an admin create can add
InitialTaskIds == {"t1", "t2"}

TaskIds == {"t1", "t2", "t3"}

InitialReward(t) == IF t = "t1" THEN 30 ELSE 40

\* the task an admin has closed (is_active = 0) in the runs on a closed task
ClosedTaskIds == {"t2"}

\* request bodies of the admin task endpoints (passed through unvalidated)
CreateBodies == { [reward_points |-> 50] }

PatchBodies == { [reward_points |-> -30] }

ReqIds == 1..MaxReq

CallIds == 1..MaxCall

\* the account present from the start
InitialAccount ==
    [ username |-> "alice", referral_code |-> "RA", referred_by |-> "null",
      full_name |-> "Alice", password_hash |-> "h0", is_banned |-> FALSE,
      email_verified |-> FALSE, whatsapp_verified |-> FALSE,
      has_blue_badge |-> FALSE ]

\* the ids a request can carry in its token: the accounts and a stale id
CallerIds(table) == DOMAIN table \cup {GhostId}

\* request bodies of the account endpoints
SignupNames == {"alice", "bob"}

PresentedCodes == {"", "RA", "ZZ"}

\* generateReferralCode(): a random code, which may be one already taken
GenCodes(c) == {"RA", "R" \o ToString(c)}

\* what every signup body carries besides username and referral_code: the
\* full name, and balance columns the handler does not pick
SignupBody ==
    [ full_name |-> "New", total_points |-> 999, available_points |-> 999,
      pending_points |-> 999, total_earned |-> 999, total_spent |-> 999 ]

\* the fields the signup handlers destructure from the body
SignupFields ==
    {"username", "password", "full_name", "country", "whatsapp", "referral_code"}

\* a profile body that also names columns the handler does not pick
ProfileBodies ==
    { [ full_name |-> "Mallory", referred_by |-> "A", total_points |-> 999,
        available_points |-> 999 ] }

\* the columns PATCH /api/profile copies from the body
ProfileColumns ==
    {"full_name", "bio", "country", "whatsapp", "avatar_url", "cover_url",
     "website", "location", "email"}

Passwords == {"pw0", "pw1"}

VerificationTypes == {"email"}

Codes == {"111111"}

Roles == {"user", "admin"}

\* the terms of a profile search: the empty one and one no name contains
SearchTerms == {"", "zz"}

\* posts and stories present from the start; "p9" and "s9" are ids of none
PostIds == {"p1"}

StoryIds == {"s1"}

\* process.env.JWT_SECRET
JWT_SECRET == "JWT_SECRET"

\* generateToken(user): jwt.sign({ id, username, role }, JWT_SECRET,
\* { expiresIn: '30d' }); expired tells whether the 30 days have passed
generateToken(id, role, expired) ==
    [ secret |-> JWT_SECRET, expired |-> expired, id |-> id, role |-> role ]

\* the token a login of the initial account returns
LoginToken == generateToken("A", "user", FALSE)

\* the tokens a request can carry: of a user, of an admin, one past its
\* expiry and one signed with another secret
Tokens ==
    { LoginToken, generateToken("A", "admin", FALSE),
      generateToken("A", "admin", TRUE),
      [ generateToken("A", "admin", FALSE) EXCEPT !.secret = "guess" ] }

\* Authorization: Bearer <token>
Bearer(token) == << "Bearer", token >>

\* the Authorization headers of a request: none, one without a token, and
\* one for each token
Headers == { << >>, << "Bearer" >> } \cup { Bearer(t) : t \in Tokens }

----------------------------------------------------------------------------
(* Tables *)

\* users columns total_points .. total_spent: INT DEFAULT 0 NOT NULL
ZeroBalances ==
    [ total_points |-> 0, available_points |-> 0, pending_points |-> 0,
      total_earned |-> 0, total_spent |-> 0 ]

\* tasks columns used by the handlers; is_active defaults to 1
TaskRow(reward) == [ reward_points |-> reward, is_active |-> TRUE ]

\* a task is unavailable when its row is missing or is_active is 0
Unavailable(t) == t \notin DOMAIN tasks \/ ~tasks[t].is_active

\* PATCH semantics of an update: the named columns are overwritten
PatchRow(row, updates) ==
    [ f \in DOMAIN row |-> IF f \in DOMAIN updates THEN updates[f] ELSE row[f] ]

\* x || 0 of JavaScript, on a number
Or0(x) == IF x = 0 THEN 0 ELSE x

\* UNIQUE KEY idx_task_user_submission (task_id, user_id)
UniqueTaskUser(table, task, uid) ==
    \A row \in table : ~(row.task_id = task /\ row.user_id = uid)

\* the uniqueness constraint of the submission table of the Supabase handlers
TaskViewsAccepts(task, uid) == UniqueTaskUser(task_views, task, uid)

\* task_submissions: the unique key and the two foreign keys
TaskSubmissionsAccepts(task, uid) ==
    /\ UniqueTaskUser(task_submissions, task, uid)
    /\ task \in DOMAIN tasks
    /\ uid \in DOMAIN users

\* the row of uid in a users table, as the list of the rows selected
SummaryOf(table, uid) ==
    IF uid \in DOMAIN table THEN << table[uid] >> ELSE << >>

\* GET /api/wallet/summary: the projection of the five balance columns
WalletSummary(uid) == SummaryOf(users, uid)

----------------------------------------------------------------------------
(* Requests *)

NoReq ==
    [ op |-> "none", uid |-> "-", task |-> "-", pc |-> "idle",
      user |-> << >>, reward |-> << >>, status |-> 0,
      before |-> << >>, clean |-> TRUE, wrote |-> FALSE,
      failedCall |-> "-", dberr |-> "-" ]

InFlight(r) == reqs[r].pc \notin {"idle", "done"}

\* an account request: its endpoint, caller, position, locals and response
NoCall ==
    [ op |-> "none", uid |-> "-", pc |-> "idle", status |-> 0, body |-> << >>,
      username |-> "-", code |-> "-", referred_by |-> "null", target |-> "-" ]

\* call slots are taken in order
CanCall(c) ==
    /\ calls[c].op = "none"
    /\ IF c = 1 THEN TRUE ELSE calls[c - 1].op # "none"

\* call c answers with the given status
Answer(call, status) == [ call EXCEPT !.pc = "done", !.status = status ]

\* request slots are taken in order
CanStart(r) ==
    /\ reqs[r].op = "none"
    /\ IF r = 1 THEN TRUE ELSE reqs[r - 1].op # "none"

Begin(r, op, uid, task, pc) ==
    [ NoReq EXCEPT !.op = op, !.uid = uid, !.task = task, !.pc = pc,
                   !.before = WalletSummary(uid) ]

\* request r answers with the given status
Respond(rq, status) == [ rq EXCEPT !.pc = "done", !.status = status ]

\* the datastore call of the given name came back with the given error
Rejected(rq, call, code) == [ rq EXCEPT !.failedCall = call, !.dberr = code ]

\* request r answers with the given status after its balance write landed
\* on an existing row
RespondWritten(rq, status) ==
    [ Respond(rq, status) EXCEPT !.wrote = rq.uid \in DOMAIN users ]

\* a balance write of request r to account uid lands: the requests in
\* flight on the same account are no longer alone on it
Disturb(r, uid, rs) ==
    [ q \in ReqIds |->
        IF q # r /\ rs[q].uid = uid /\ rs[q].pc \notin {"idle", "done"}
        THEN [ rs[q] EXCEPT !.clean = FALSE ] ELSE rs[q] ]

\* a datastore call may fail while the budget of environment events lasts
EnvBudget == faults + adminOps < MaxEnv

CanFail == EnvBudget

\* the initial tasks, all open
OpenTasks == [ t \in InitialTaskIds |-> TaskRow(InitialReward(t)) ]

\* the two deployments before any request
NewTwin ==
    [ served |-> << >>,
      mysql |-> [ users |-> ZeroBalances, rows |-> {} ],
      supabase |-> [ users |-> ZeroBalances, rows |-> {} ] ]

\* every table but tasks, the balances of users and verification_codes
InitTables ==
    /\ backend \in {"supabase_js", "rest_shim", "mysql"}
    /\ task_views = {}
    /\ task_submissions = {}
    /\ wallet_transactions = {}
    /\ reqs = [ r \in ReqIds |-> NoReq ]
    /\ faults = 0
    /\ adminOps = 0
    /\ accounts = [ u \in UserIds |-> InitialAccount ]
    /\ referrals = {}
    /\ notifications = [ n \in {"n1"} |-> [ user_id |-> "A", is_read |-> FALSE ] ]
    /\ verifications = {}
    /\ calls = [ c \in CallIds |-> NoCall ]
    /\ twin = NewTwin
    /\ posts = [ p \in PostIds |-> 0 ]
    /\ post_likes = {}
    /\ stories = [ s \in StoryIds |-> 0 ]
    /\ story_views = {}

\* no verification code is stored and every account request carries the
\* token of a login
InitVerified ==
    /\ verification_codes = {}
    /\ presented = [ c \in CallIds |-> Bearer(LoginToken) ]

Init ==
    /\ InitTables
    /\ InitVerified
    /\ tasks = OpenTasks
    /\ users = [ u \in UserIds |-> ZeroBalances ]

----------------------------------------------------------------------------
(* Datastore writes *)

\* update(...).eq('id', uid): the row with that id, if any, is patched
ApplyUpdate(uid, updates) ==
    IF uid \in DOMAIN users
    THEN [ users EXCEPT ![uid] = PatchRow(@, updates) ]
    ELSE users

\* the columns the submit handler writes, from the row it read earlier
SubmitUpdateValues(user, reward) ==
    [ available_points |-> Or0(user.available_points) + reward,
      total_points     |-> Or0(user.total_points) + reward,
      total_earned     |-> Or0(user.total_earned) + reward ]

\* the columns the claim-bonus handler writes, from the row it read earlier
ClaimUpdateValues(user) ==
    [ available_points |-> Or0(user.available_points) + VerificationBonus,
      total_points     |-> Or0(user.total_points) + VerificationBonus ]

\* SET available_points = available_points + 20, on one row
MysqlClaimRow(row) ==
    [ row EXCEPT !.available_points = @ + VerificationBonus ]

\* UPDATE users SET available_points = available_points + 20 WHERE id = ?
MysqlClaimUpdate(uid) ==
    IF uid \in DOMAIN users
    THEN [ users EXCEPT ![uid] = MysqlClaimRow(@) ]
    ELSE users

----------------------------------------------------------------------------
(* POST /api/tasks/:taskId/submit, Supabase handlers *)

\* const id = crypto.randomUUID(); insert into task_views; if (error) throw
\* error. The handler runs from its entry to this first datastore call
\* without yielding.
SubmitInsert(r, uid, t) ==
    /\ backend # "mysql"
    /\ CanStart(r)
    /\ \/ /\ TaskViewsAccepts(t, uid)
          /\ task_views' = task_views \cup
                 { [ id |-> r, task_id |-> t, user_id |-> uid ] }
          /\ reqs' = [ reqs EXCEPT ![r] = Begin(r, "submit", uid, t, "task") ]
          /\ UNCHANGED faults
       \/ /\ ~TaskViewsAccepts(t, uid)
          /\ reqs' = [ reqs EXCEPT ![r] =
                 Respond(Rejected(Begin(r, "submit", uid, t, "insert"),
                                  "insert", "duplicate"), 500) ]
          /\ UNCHANGED <<task_views, faults>>
       \/ /\ CanFail
          /\ faults' = faults + 1
          /\ reqs' = [ reqs EXCEPT ![r] =
                 Respond(Rejected(Begin(r, "submit", uid, t, "insert"),
                                  "insert", "failure"), 500) ]
          /\ UNCHANGED task_views
    /\ UNCHANGED acctVars
    /\ UNCHANGED <<backend, users, tasks, task_submissions,
                   wallet_transactions, adminOps>>

\* const { data: task } = select reward_points from tasks; if (task) {...};
\* without a task the handler answers 201 at once
SubmitReadTask(r) ==
    /\ backend # "mysql"
    /\ reqs[r].op = "submit" /\ reqs[r].pc = "task"
    /\ \/ /\ reqs[r].task \in DOMAIN tasks
          /\ reqs' = [ reqs EXCEPT ![r].pc = "user",
                           ![r].reward = << tasks[reqs[r].task].reward_points >> ]
          /\ UNCHANGED faults
       \/ /\ reqs[r].task \notin DOMAIN tasks
          /\ reqs' = [ reqs EXCEPT ![r] = Respond(@, 201) ]
          /\ UNCHANGED faults
       \/ /\ CanFail
          /\ faults' = faults + 1
          /\ reqs' = [ reqs EXCEPT ![r] = Respond(Rejected(@, "task", "failure"), 201) ]
    /\ UNCHANGED acctVars
    /\ UNCHANGED <<backend, users, tasks, task_views, task_submissions,
                   wallet_transactions, adminOps>>

\* const { data: user } = select ... from users .single(); a null user
\* makes user.available_points throw, which the catch answers with 500
SubmitReadUser(r) ==
    /\ backend # "mysql"
    /\ reqs[r].op = "submit" /\ reqs[r].pc = "user"
    /\ \/ /\ reqs[r].uid \in DOMAIN users
          /\ reqs' = [ reqs EXCEPT ![r].pc = "update",
                           ![r].user = << users[reqs[r].uid] >> ]
          /\ UNCHANGED faults
       \/ /\ reqs[r].uid \notin DOMAIN users
          /\ reqs' = [ reqs EXCEPT ![r] = Respond(Rejected(@, "user", "no_row"), 500) ]
          /\ UNCHANGED faults
       \/ /\ CanFail
          /\ faults' = faults + 1
          /\ reqs' = [ reqs EXCEPT ![r] = Respond(Rejected(@, "user", "failure"), 500) ]
    /\ UNCHANGED acctVars
    /\ UNCHANGED <<backend, users, tasks, task_views, task_submissions,
                   wallet_transactions, adminOps>>

\* the mutation of ShimUpdateThrow: the PATCH lands and the call throws
ShimUpdateThrowAfterWrite(r, updates) ==
    /\ backend = "rest_shim"
    /\ CanFail
    /\ faults' = faults + 1
    /\ users' = ApplyUpdate(reqs[r].uid, updates)
    /\ reqs' = [ Disturb(r, reqs[r].uid, reqs) EXCEPT ![r] =
                    RespondWritten(Rejected(@, "update", "thrown"), 500) ]

\* dbUpdate of the REST shim has no try/catch around fetch: a rejected fetch
\* throws out of the handler's await, the catch answers 500
ShimUpdateThrow(r, updates) ==
    /\ backend = "rest_shim"
    /\ CanFail
    /\ faults' = faults + 1
    /\ users' = users
    /\ reqs' = [ reqs EXCEPT ![r] = Respond(Rejected(@, "update", "thrown"), 500) ]

\* await update(...).eq('id', uid) with the result never inspected, then the
\* success response with the given status
UpdateAndRespond(r, updates, status) ==
    \/ /\ users' = ApplyUpdate(reqs[r].uid, updates)
       /\ reqs' = [ Disturb(r, reqs[r].uid, reqs) EXCEPT ![r] = RespondWritten(@, status) ]
       /\ UNCHANGED faults
    \/ /\ CanFail
       /\ faults' = faults + 1
       /\ users' = users
       /\ reqs' = [ reqs EXCEPT ![r] = Respond(Rejected(@, "update", "failure"), status) ]
    \/ ShimUpdateThrow(r, updates)

SubmitUpdate(r) ==
    /\ backend # "mysql"
    /\ reqs[r].op = "submit" /\ reqs[r].pc = "update"
    /\ UpdateAndRespond(r, SubmitUpdateValues(reqs[r].user[1], reqs[r].reward[1]), 201)
    /\ UNCHANGED acctVars
    /\ UNCHANGED <<backend, tasks, task_views, task_submissions,
                   wallet_transactions, adminOps>>

----------------------------------------------------------------------------
(* POST /api/verifications/claim-bonus, Supabase handlers *)

\* update({ available_points: supabase.rpc('increment_points', ...) }):
\* the REST shim has no rpc, so the call throws (500); supabase-js sends the
\* unexecuted builder as the column value, the datastore rejects it and the
\* error is never inspected. The handler runs from its entry to this call
\* without yielding.
ClaimRpcUpdate(r, uid) ==
    /\ backend # "mysql"
    /\ CanStart(r)
    /\ \/ /\ backend = "rest_shim"
          /\ reqs' = [ reqs EXCEPT ![r] =
                 Respond(Rejected(Begin(r, "claim", uid, "-", "rpc"),
                                  "rpc", "thrown"), 500) ]
       \/ /\ backend = "supabase_js"
          /\ reqs' = [ reqs EXCEPT ![r] = Begin(r, "claim", uid, "-", "user") ]
    /\ UNCHANGED acctVars
    /\ UNCHANGED <<backend, users, tasks, task_views, task_submissions,
                   wallet_transactions, faults, adminOps>>

\* const { data: user } = select available_points, total_points .single()
ClaimReadUser(r) ==
    /\ backend # "mysql"
    /\ reqs[r].op = "claim" /\ reqs[r].pc = "user"
    /\ \/ /\ reqs[r].uid \in DOMAIN users
          /\ reqs' = [ reqs EXCEPT ![r].pc = "update",
                           ![r].user = << users[reqs[r].uid] >> ]
          /\ UNCHANGED faults
       \/ /\ reqs[r].uid \notin DOMAIN users
          /\ reqs' = [ reqs EXCEPT ![r] = Respond(Rejected(@, "user", "no_row"), 500) ]
          /\ UNCHANGED faults
       \/ /\ CanFail
          /\ faults' = faults + 1
          /\ reqs' = [ reqs EXCEPT ![r] = Respond(Rejected(@, "user", "failure"), 500) ]
    /\ UNCHANGED acctVars
    /\ UNCHANGED <<backend, users, tasks, task_views, task_submissions,
                   wallet_transactions, adminOps>>

ClaimUpdate(r) ==
    /\ backend # "mysql"
    /\ reqs[r].op = "claim" /\ reqs[r].pc = "update"
    /\ UpdateAndRespond(r, ClaimUpdateValues(reqs[r].user[1]), 200)
    /\ UNCHANGED acctVars
    /\ UNCHANGED <<backend, tasks, task_views, task_submissions,
                   wallet_transactions, adminOps>>

----------------------------------------------------------------------------
(* Admin task endpoints, Supabase handlers *)

\* POST /api/admin/tasks: insert({ id, creator_id, ...req.body })
AdminCreateTask(t, body) ==
    /\ backend # "mysql"
    /\ EnvBudget
    /\ t \notin DOMAIN tasks
    /\ adminOps' = adminOps + 1
    /\ \/ /\ tasks' = [ x \in DOMAIN tasks \cup {t} |->
                          IF x = t THEN PatchRow(TaskRow(0), body) ELSE tasks[x] ]
          /\ UNCHANGED faults
       \/ /\ CanFail
          /\ faults' = faults + 1
          /\ UNCHANGED tasks
    /\ UNCHANGED acctVars
    /\ UNCHANGED <<backend, users, task_views, task_submissions,
                   wallet_transactions, reqs>>

\* PATCH /api/admin/tasks/:taskId: update(req.body).eq('id', taskId)
AdminPatchTask(t, body) ==
    /\ backend # "mysql"
    /\ EnvBudget
    /\ adminOps' = adminOps + 1
    /\ \/ /\ tasks' = IF t \in DOMAIN tasks
                      THEN [ tasks EXCEPT ![t] = PatchRow(@, body) ]
                      ELSE tasks
          /\ UNCHANGED faults
       \/ /\ CanFail
          /\ faults' = faults + 1
          /\ UNCHANGED tasks
    /\ UNCHANGED acctVars
    /\ UNCHANGED <<backend, users, task_views, task_submissions,
                   wallet_transactions, reqs>>

----------------------------------------------------------------------------
(* MySQL handlers: each is one statement, then the response *)

\* POST /api/tasks/:taskId/submit: INSERT INTO task_submissions
MysqlSubmit(r, uid, t) ==
    /\ backend = "mysql"
    /\ CanStart(r)
    /\ \/ /\ TaskSubmissionsAccepts(t, uid)
          /\ task_submissions' = task_submissions \cup
                 { [ id |-> r, task_id |-> t, user_id |-> uid ] }
          /\ reqs' = [ reqs EXCEPT ![r] = Respond(Begin(r, "submit", uid, t, "insert"), 201) ]
          /\ UNCHANGED faults
       \/ /\ ~TaskSubmissionsAccepts(t, uid)
          /\ reqs' = [ reqs EXCEPT ![r] =
                 Respond(Rejected(Begin(r, "submit", uid, t, "insert"), "insert",
                                  IF UniqueTaskUser(task_submissions, t, uid)
                                  THEN "foreign_key" ELSE "duplicate"), 500) ]
          /\ UNCHANGED <<task_submissions, faults>>
       \/ /\ CanFail
          /\ faults' = faults + 1
          /\ reqs' = [ reqs EXCEPT ![r] =
                 Respond(Rejected(Begin(r, "submit", uid, t, "insert"),
                                  "insert", "failure"), 500) ]
          /\ UNCHANGED task_submissions
    /\ UNCHANGED acctVars
    /\ UNCHANGED <<backend, users, tasks, task_views, wallet_transactions, adminOps>>

\* POST /api/verifications/claim-bonus: one UPDATE statement
MysqlClaimBonus(r, uid) ==
    /\ backend = "mysql"
    /\ CanStart(r)
    /\ \/ /\ users' = MysqlClaimUpdate(uid)
          /\ reqs' = [ reqs EXCEPT ![r] = RespondWritten(Begin(r, "claim", uid, "-", "rpc"), 200) ]
          /\ UNCHANGED faults
       \/ /\ CanFail
          /\ faults' = faults + 1
          /\ reqs' = [ reqs EXCEPT ![r] =
                 Respond(Rejected(Begin(r, "claim", uid, "-", "rpc"),
                                  "update", "failure"), 500) ]
          /\ UNCHANGED users
    /\ UNCHANGED acctVars
    /\ UNCHANGED <<backend, tasks, task_views, task_submissions,
                   wallet_transactions, adminOps>>

----------------------------------------------------------------------------
(* GET /api/wallet/summary *)

\* Supabase handler: select the five balance columns .single(); if (error)
\* throw error (no row is an error of .single()); res.json(data)
SupabaseSummary(c, uid) ==
    /\ backend # "mysql"
    /\ CanCall(c)
    /\ \/ /\ uid \in DOMAIN users
          /\ calls' = [ calls EXCEPT ![c] =
                 Answer([ NoCall EXCEPT !.op = "summary", !.uid = uid,
                                        !.body = << users[uid] >> ], 200) ]
          /\ UNCHANGED faults
       \/ /\ uid \notin DOMAIN users
          /\ calls' = [ calls EXCEPT ![c] =
                 Answer([ NoCall EXCEPT !.op = "summary", !.uid = uid ], 500) ]
          /\ UNCHANGED faults
       \/ /\ CanFail
          /\ faults' = faults + 1
          /\ calls' = [ calls EXCEPT ![c] =
                 Answer([ NoCall EXCEPT !.op = "summary", !.uid = uid ], 500) ]
    /\ UNCHANGED <<accounts, referrals, notifications, verification_codes,
                   verifications>>
    /\ UNCHANGED <<backend, users>>
    /\ UNCHANGED ledgerVars

\* the mutation of MysqlSummary: total_points answered from available_points
MysqlSummaryMixedColumns(c, uid) ==
    /\ backend = "mysql"
    /\ CanCall(c)
    /\ calls' = [ calls EXCEPT ![c] =
           Answer([ NoCall EXCEPT !.op = "summary", !.uid = uid,
                      !.body = IF uid \in DOMAIN users
                               THEN << [ users[uid] EXCEPT
                                          !.total_points = users[uid].available_points ] >>
                               ELSE << >> ], 200) ]
    /\ UNCHANGED faults
    /\ UNCHANGED <<accounts, referrals, notifications, verification_codes,
                   verifications>>
    /\ UNCHANGED <<backend, users>>
    /\ UNCHANGED ledgerVars

\* MySQL handler: SELECT the five balance columns WHERE id = ?;
\* res.json(rows[0]): without a row the answer is 200 with no body
MysqlSummary(c, uid) ==
    /\ backend = "mysql"
    /\ CanCall(c)
    /\ \/ /\ calls' = [ calls EXCEPT ![c] =
                 Answer([ NoCall EXCEPT !.op = "summary", !.uid = uid,
                            !.body = IF uid \in DOMAIN users
                                     THEN << users[uid] >> ELSE << >> ], 200) ]
          /\ UNCHANGED faults
       \/ /\ CanFail
          /\ faults' = faults + 1
          /\ calls' = [ calls EXCEPT ![c] =
                 Answer([ NoCall EXCEPT !.op = "summary", !.uid = uid ], 500) ]
    /\ UNCHANGED <<accounts, referrals, notifications, verification_codes,
                   verifications>>
    /\ UNCHANGED <<backend, users>>
    /\ UNCHANGED ledgerVars

----------------------------------------------------------------------------
(* Account endpoints: helpers *)

\* crypto.randomUUID(): an id no other request draws
Uuid(c) == ToString(c)

\* starts call c of the given endpoint for the given caller
Call(op, uid, pc) == [ NoCall EXCEPT !.op = op, !.uid = uid, !.pc = pc ]

\* bcrypt: hashPassword, and comparePassword as equality of hashes
Hash(password) == IF password = "pw0" THEN "h0" ELSE "h1"

comparePassword(password, hash) == Hash(password) = hash

\* UPDATE users ... WHERE id = uid: the named columns of the row, if any,
\* are overwritten, balance columns and account columns alike
UsersUpdate(uid, updates) ==
    /\ users' = ApplyUpdate(uid, updates)
    /\ accounts' = IF uid \in DOMAIN accounts
                   THEN [ accounts EXCEPT ![uid] = PatchRow(@, updates) ]
                   ELSE accounts

\* the mutation of BadgeUpdates: the verification also grants the bonus
BadgeUpdatesWithBonus(type) ==
    [ email_verified |-> TRUE, has_blue_badge |-> TRUE,
      total_points |-> VerificationBonus ]

\* const field = type === 'email' ? 'email_verified' : 'whatsapp_verified';
\* update({ [field]: true, has_blue_badge: true })
BadgeUpdates(type) ==
    IF type = "email"
    THEN [ email_verified |-> TRUE, has_blue_badge |-> TRUE ]
    ELSE [ whatsapp_verified |-> TRUE, has_blue_badge |-> TRUE ]

\* the mutation of UsersAccepts: the unique key on username dropped
UsersAcceptsCodeOnly(username, ref_code) ==
    \A u \in DOMAIN accounts : accounts[u].referral_code # ref_code

\* UNIQUE KEY idx_username, UNIQUE KEY idx_referral_code
UsersAccepts(username, ref_code) ==
    \A u \in DOMAIN accounts :
        /\ accounts[u].username # username
        /\ accounts[u].referral_code # ref_code

\* the mutation of ReferrerOf: any account answers for any code
ReferrerOfAny(code) ==
    CHOOSE u \in DOMAIN accounts : TRUE

\* SELECT id FROM users WHERE referral_code = ?: the referrer's id, or null
ReferrerOf(code) ==
    IF \E u \in DOMAIN accounts : accounts[u].referral_code = code
    THEN CHOOSE u \in DOMAIN accounts : accounts[u].referral_code = code
    ELSE "null"

\* the mutation of SignupRow: the request body spread into the row
SignupRowSpread(body) == body

\* const { username, password, full_name, country, whatsapp, referral_code }
\* = req.body: the row is built from these fields alone
SignupRow(body) ==
    [ f \in DOMAIN body \cap SignupFields |-> body[f] ]

\* the users row a signup inserts: the columns it names, the defaults of
\* the schema for the rest
InsertUser(id, username, full_name, password_hash, ref_code, referred_by) ==
    /\ users' = [ u \in DOMAIN users \cup {id} |->
                    IF u = id THEN PatchRow(ZeroBalances, SignupRow(SignupBody))
                    ELSE users[u] ]
    /\ accounts' = [ u \in DOMAIN accounts \cup {id} |->
                       IF u = id
                       THEN [ username |-> username, referral_code |-> ref_code,
                              referred_by |-> referred_by, full_name |-> full_name,
                              password_hash |-> password_hash, is_banned |-> FALSE,
                              email_verified |-> FALSE,
                              whatsapp_verified |-> FALSE,
                              has_blue_badge |-> FALSE ]
                       ELSE accounts[u] ]

\* the tables no account endpoint writes
acctFrame == <<backend, faults, tasks, task_views, task_submissions,
               wallet_transactions, reqs, adminOps, referrals, twin, presented,
               socialVars>>

----------------------------------------------------------------------------
(* POST /api/auth/signup, Supabase handler *)

\* select id from users where username = ? .maybeSingle(); 409 when taken,
\* else on to await hashPassword
SignupCheckUsername(c, username, code) ==
    /\ backend # "mysql"
    /\ CanCall(c)
    /\ calls' = [ calls EXCEPT ![c] =
           LET call == [ Call("signup", Uuid(c), "referrer") EXCEPT
                           !.username = username, !.code = code ]
           IN  IF \E u \in DOMAIN accounts : accounts[u].username = username
               THEN Answer(call, 409)
               ELSE IF code = "" THEN [ call EXCEPT !.pc = "insert" ] ELSE call ]
    /\ UNCHANGED <<users, accounts, notifications, verification_codes, verifications>>
    /\ UNCHANGED acctFrame

\* if (referral_code) select id from users where referral_code = ?
\* .maybeSingle(); if (referrer) referred_by = referrer.id
SignupFindReferrer(c) ==
    /\ backend # "mysql"
    /\ calls[c].op = "signup" /\ calls[c].pc = "referrer"
    /\ calls' = [ calls EXCEPT ![c].pc = "insert",
                               ![c].referred_by = ReferrerOf(calls[c].code) ]
    /\ UNCHANGED <<users, accounts, notifications, verification_codes, verifications>>
    /\ UNCHANGED acctFrame

\* insert into users; insertError.code === '23505' answers 409 'Username
\* already taken', whichever unique key was hit; else 201
SignupInsert(c, ref_code) ==
    /\ backend # "mysql"
    /\ calls[c].op = "signup" /\ calls[c].pc = "insert"
    /\ IF UsersAccepts(calls[c].username, ref_code)
       THEN /\ InsertUser(calls[c].uid, calls[c].username,
                          SignupRow(SignupBody).full_name, "h0",
                          ref_code, calls[c].referred_by)
            /\ calls' = [ calls EXCEPT ![c] = Answer(@, 201) ]
       ELSE /\ calls' = [ calls EXCEPT ![c] = Answer(@, 409) ]
            /\ UNCHANGED <<users, accounts>>
    /\ UNCHANGED <<notifications, verification_codes, verifications>>
    /\ UNCHANGED acctFrame

----------------------------------------------------------------------------
(* POST /api/auth/signup, MySQL handler *)

\* the handler runs to await hashPassword(password) without a query
MysqlSignupBegin(c, username, code) ==
    /\ backend = "mysql"
    /\ CanCall(c)
    /\ calls' = [ calls EXCEPT ![c] =
           [ Call("signup", Uuid(c), IF code = "" THEN "insert" ELSE "referrer")
               EXCEPT !.username = username, !.code = code ] ]
    /\ UNCHANGED <<users, accounts, notifications, verification_codes, verifications>>
    /\ UNCHANGED acctFrame

\* if (referral_code) SELECT id FROM users WHERE referral_code = ?
MysqlSignupFindReferrer(c) ==
    /\ backend = "mysql"
    /\ calls[c].op = "signup" /\ calls[c].pc = "referrer"
    /\ calls' = [ calls EXCEPT ![c].pc = "insert",
                               ![c].referred_by = ReferrerOf(calls[c].code) ]
    /\ UNCHANGED <<users, accounts, notifications, verification_codes, verifications>>
    /\ UNCHANGED acctFrame

\* INSERT INTO users (...); any error answers 500
MysqlSignupInsert(c, ref_code) ==
    /\ backend = "mysql"
    /\ calls[c].op = "signup" /\ calls[c].pc = "insert"
    /\ IF UsersAccepts(calls[c].username, ref_code)
       THEN /\ InsertUser(calls[c].uid, calls[c].username,
                          SignupRow(SignupBody).full_name, "h0",
                          ref_code, calls[c].referred_by)
            /\ calls' = [ calls EXCEPT ![c] = Answer(@, 201) ]
       ELSE /\ calls' = [ calls EXCEPT ![c] = Answer(@, 500) ]
            /\ UNCHANGED <<users, accounts>>
    /\ UNCHANGED <<notifications, verification_codes, verifications>>
    /\ UNCHANGED acctFrame

----------------------------------------------------------------------------
(* PATCH and PUT /api/profile, Supabase handlers *)

\* the mutation of ProfileUpdates: the request body passed through
ProfileUpdatesUnfiltered(body) == body

\* const { full_name, bio, ..., email } = req.body; updates = { full_name,
\* bio, country, whatsapp, avatar_url, cover_url, website, location,
\* updated_at }; if (email) updates.email = email
ProfileUpdates(body) ==
    [ f \in DOMAIN body \cap ProfileColumns |-> body[f] ]

\* update(updates).eq('id', req.user.id).select().single(): supabase-js
\* answers the row (no row is an error, 500); in the REST shim eq() has sent
\* the PATCH when .select() throws, so the write lands and the answer is 500
ProfileUpdate(c, uid, body) ==
    /\ backend # "mysql"
    /\ CanCall(c)
    /\ UsersUpdate(uid, ProfileUpdates(body))
    /\ calls' = [ calls EXCEPT ![c] =
           Answer(Call("profile", uid, "update"),
                  IF backend = "supabase_js" /\ uid \in DOMAIN users
                  THEN 200 ELSE 500) ]
    /\ UNCHANGED <<notifications, verification_codes, verifications>>
    /\ UNCHANGED acctFrame

----------------------------------------------------------------------------
(* PATCH /api/settings/password, Supabase handler *)

\* select password_hash .single(); a null user throws (500); 401 when
\* comparePassword fails; else on to await hashPassword
PasswordCheck(c, uid, current_password) ==
    /\ backend # "mysql"
    /\ CanCall(c)
    /\ calls' = [ calls EXCEPT ![c] =
           LET call == Call("password", uid, "update")
           IN  IF uid \notin DOMAIN accounts THEN Answer(call, 500)
               ELSE IF ~comparePassword(current_password, accounts[uid].password_hash)
                    THEN Answer(call, 401)
                    ELSE call ]
    /\ UNCHANGED <<users, accounts, notifications, verification_codes, verifications>>
    /\ UNCHANGED acctFrame

\* update({ password_hash: new_hash }).eq('id', req.user.id)
PasswordUpdate(c, new_password) ==
    /\ backend # "mysql"
    /\ calls[c].op = "password" /\ calls[c].pc = "update"
    /\ UsersUpdate(calls[c].uid, [ password_hash |-> Hash(new_password) ])
    /\ calls' = [ calls EXCEPT ![c] = Answer(@, 200) ]
    /\ UNCHANGED <<notifications, verification_codes, verifications>>
    /\ UNCHANGED acctFrame

----------------------------------------------------------------------------
(* POST /api/auth/send-verification and /api/auth/verify-code, Supabase *)

\* upsert({ user_id, code, type, expires_at }, { onConflict: 'user_id,type' });
\* the REST shim has no upsert, the call throws (500)
SendVerification(c, uid, type, code) ==
    /\ backend # "mysql"
    /\ CanCall(c)
    /\ IF backend = "supabase_js"
       THEN /\ verification_codes' =
                 { row \in verification_codes :
                     ~(row.user_id = uid /\ row.type = type) }
                 \cup { [ user_id |-> uid, type |-> type, code |-> code ] }
            /\ calls' = [ calls EXCEPT ![c] = Answer(Call("send", uid, "upsert"), 200) ]
       ELSE /\ calls' = [ calls EXCEPT ![c] = Answer(Call("send", uid, "upsert"), 500) ]
            /\ UNCHANGED verification_codes
    /\ UNCHANGED <<users, accounts, notifications, verifications>>
    /\ UNCHANGED acctFrame

\* select * from verification_codes .eq(user_id).eq(type).eq(code)
\* .maybeSingle(): 400 without a record or past expires_at; the REST shim's
\* eq() result has no second eq, the chain throws (500)
VerifyCodeLookup(c, uid, type, code, expired) ==
    /\ backend # "mysql"
    /\ CanCall(c)
    /\ calls' = [ calls EXCEPT ![c] =
           LET call == [ Call("verify", uid, "mark") EXCEPT
                           !.code = code, !.target = type ]
               record == [ user_id |-> uid, type |-> type, code |-> code ]
           IN  IF backend = "rest_shim" THEN Answer(call, 500)
               ELSE IF record \notin verification_codes \/ expired
                    THEN Answer(call, 400)
                    ELSE call ]
    /\ UNCHANGED <<users, accounts, notifications, verification_codes, verifications>>
    /\ UNCHANGED acctFrame

\* update({ [field]: true, has_blue_badge: true }).eq('id', req.user.id)
VerifyCodeMark(c) ==
    /\ backend # "mysql"
    /\ calls[c].op = "verify" /\ calls[c].pc = "mark"
    /\ UsersUpdate(calls[c].uid, BadgeUpdates(calls[c].target))
    /\ calls' = [ calls EXCEPT ![c].pc = "delete" ]
    /\ UNCHANGED <<notifications, verification_codes, verifications>>
    /\ UNCHANGED acctFrame

\* delete from verification_codes .eq('id', record.id); res.json(success)
VerifyCodeDelete(c) ==
    /\ backend # "mysql"
    /\ calls[c].op = "verify" /\ calls[c].pc = "delete"
    /\ verification_codes' =
           { row \in verification_codes :
               ~(row.user_id = calls[c].uid /\ row.type = calls[c].target) }
    /\ calls' = [ calls EXCEPT ![c] = Answer(@, 200) ]
    /\ UNCHANGED <<users, accounts, notifications, verifications>>
    /\ UNCHANGED acctFrame

----------------------------------------------------------------------------
(* Admin endpoints on accounts, Supabase handlers *)

\* the mutation of AdminBan: the role of the caller is not looked at
AdminBanUnchecked(c, role, userId, is_banned) ==
    /\ backend # "mysql"
    /\ CanCall(c)
    /\ UsersUpdate(userId, [ is_banned |-> is_banned ])
    /\ calls' = [ calls EXCEPT ![c] =
           Answer([ Call("ban", role, "update") EXCEPT !.target = userId ], 200) ]
    /\ UNCHANGED <<notifications, verification_codes, verifications>>
    /\ UNCHANGED acctFrame

\* PATCH /api/admin/users/:userId/ban: 403 unless req.user.role is admin;
\* update({ is_banned }).eq('id', userId)
AdminBan(c, role, userId, is_banned) ==
    /\ backend # "mysql"
    /\ CanCall(c)
    /\ IF role # "admin"
       THEN /\ calls' = [ calls EXCEPT ![c] =
                   Answer([ Call("ban", role, "update") EXCEPT !.target = userId ], 403) ]
            /\ UNCHANGED <<users, accounts>>
       ELSE /\ UsersUpdate(userId, [ is_banned |-> is_banned ])
            /\ calls' = [ calls EXCEPT ![c] =
                   Answer([ Call("ban", role, "update") EXCEPT !.target = userId ], 200) ]
    /\ UNCHANGED <<notifications, verification_codes, verifications>>
    /\ UNCHANGED acctFrame

\* POST /api/verifications/request (either backend): one insert, 201;
\* the foreign key on user_id refuses a caller without a users row (500)
VerificationRequest(c, uid, type) ==
    /\ CanCall(c)
    /\ IF uid \in DOMAIN users
       THEN /\ verifications' = verifications \cup
                 { [ id |-> Uuid(c), user_id |-> uid, verification_type |-> type,
                     is_approved |-> FALSE ] }
            /\ calls' = [ calls EXCEPT ![c] = Answer(Call("request", uid, "insert"), 201) ]
       ELSE /\ calls' = [ calls EXCEPT ![c] = Answer(Call("request", uid, "insert"), 500) ]
            /\ UNCHANGED verifications
    /\ UNCHANGED <<users, accounts, notifications, verification_codes>>
    /\ UNCHANGED acctFrame

\* POST /api/admin/verifications/:id/approve: 403 unless admin;
\* update({ is_approved: true, ... }).eq('id', id).select().single(): no row
\* is an error (500); in the REST shim the PATCH is sent, then .select()
\* throws (500)
AdminApprove(c, role, id) ==
    /\ backend # "mysql"
    /\ CanCall(c)
    /\ IF role # "admin"
       THEN /\ calls' = [ calls EXCEPT ![c] =
                   Answer([ Call("approve", role, "update") EXCEPT !.target = id ], 403) ]
            /\ UNCHANGED verifications
       ELSE /\ verifications' =
                 { IF v.id = id THEN [ v EXCEPT !.is_approved = TRUE ] ELSE v :
                     v \in verifications }
            /\ calls' = [ calls EXCEPT ![c] =
                   LET call == [ Call("approve", role, "badge") EXCEPT !.target = id ]
                   IN  IF backend = "rest_shim"
                          \/ ~\E v \in verifications : v.id = id
                       THEN Answer(call, 500)
                       ELSE call ]
    /\ UNCHANGED <<users, accounts, notifications, verification_codes>>
    /\ UNCHANGED acctFrame

\* update({ [field]: true, has_blue_badge: true }).eq('id',
\* verification.user_id), the result not inspected; res.json(success)
AdminApproveBadge(c) ==
    /\ backend # "mysql"
    /\ calls[c].op = "approve" /\ calls[c].pc = "badge"
    /\ LET v == CHOOSE x \in verifications : x.id = calls[c].target
       IN  UsersUpdate(v.user_id, BadgeUpdates(v.verification_type))
    /\ calls' = [ calls EXCEPT ![c] = Answer(@, 200) ]
    /\ UNCHANGED <<notifications, verification_codes, verifications>>
    /\ UNCHANGED acctFrame

----------------------------------------------------------------------------
(* POST /api/notifications/:notificationId/read and /read-all *)

\* supabase-js and MySQL: is_read set where id and user_id match, 200; in
\* the REST shim the first eq() sends the PATCH filtered by id alone, then
\* the second eq() throws (500)
NotificationRead(c, uid, notificationId) ==
    /\ CanCall(c)
    /\ notifications' =
           [ n \in DOMAIN notifications |->
               IF n = notificationId
                  /\ (backend = "rest_shim" \/ notifications[n].user_id = uid)
               THEN [ notifications[n] EXCEPT !.is_read = TRUE ]
               ELSE notifications[n] ]
    /\ calls' = [ calls EXCEPT ![c] =
           Answer([ Call("read", uid, "update") EXCEPT !.target = notificationId ],
                  IF backend = "rest_shim" THEN 500 ELSE 200) ]
    /\ UNCHANGED <<users, accounts, verification_codes, verifications>>
    /\ UNCHANGED acctFrame

\* is_read set on every notification of the caller, 200
NotificationReadAll(c, uid) ==
    /\ CanCall(c)
    /\ notifications' =
           [ n \in DOMAIN notifications |->
               IF notifications[n].user_id = uid
               THEN [ notifications[n] EXCEPT !.is_read = TRUE ]
               ELSE notifications[n] ]
    /\ calls' = [ calls EXCEPT ![c] = Answer(Call("read_all", uid, "update"), 200) ]
    /\ UNCHANGED <<users, accounts, verification_codes, verifications>>
    /\ UNCHANGED acctFrame

----------------------------------------------------------------------------
(* Reads of users: login, profiles, search, admin list *)

\* SELECT * FROM users: the row of u with every column
UserRow(u) == ("id" :> u) @@ accounts[u] @@ users[u]

\* const { password_hash, ...rest } = row
Without(row, columns) == [ f \in DOMAIN row \ columns |-> row[f] ]

\* select('<columns>'): the named columns of the row
Project(row, columns) == [ f \in DOMAIN row \cap columns |-> row[f] ]

RECURSIVE RowsOf(_)
\* the rows of a result set as the array the driver returns
RowsOf(S) ==
    IF S = {} THEN << >>
    ELSE LET row == CHOOSE x \in S : TRUE
         IN  << row >> \o RowsOf(S \ {row})

\* the accounts with the given username (at most one: idx_username)
ByUsername(username) ==
    { u \in DOMAIN accounts : accounts[u].username = username }

\* username LIKE '%q%' OR full_name LIKE '%q%', for the terms of the model:
\* the empty term, which every name contains, and one no name contains
Matching(q) == IF q = "" THEN DOMAIN accounts ELSE {}

\* the columns the Supabase search and admin list select
SearchColumns == {"id", "username", "full_name", "avatar_url", "total_points"}

AdminUsersColumns ==
    {"id", "username", "full_name", "email", "role", "is_banned",
     "total_points", "created_at"}

\* the rows of a response
Reply(call, status, rows) == [ Answer(call, status) EXCEPT !.body = rows ]

\* POST /api/auth/login (either backend): 401 without the user or when
\* comparePassword fails; else the user without password_hash
Login(c, username, password) ==
    /\ CanCall(c)
    /\ calls' = [ calls EXCEPT ![c] =
           LET call == [ Call("login", "-", "select") EXCEPT !.username = username ]
               found == ByUsername(username)
           IN  IF found = {} THEN Answer(call, 401)
               ELSE LET user == UserRow(CHOOSE u \in found : TRUE)
                    IN  IF ~comparePassword(password, user.password_hash)
                        THEN Answer(call, 401)
                        ELSE Reply(call, 200, << Without(user, {"password_hash"}) >>) ]
    /\ UNCHANGED <<users, accounts, notifications, verification_codes, verifications>>
    /\ UNCHANGED acctFrame

\* GET /api/profile (either backend): 404 without the row; else the row
\* without password_hash
ProfileGet(c, uid) ==
    /\ CanCall(c)
    /\ calls' = [ calls EXCEPT ![c] =
           IF uid \notin DOMAIN accounts
           THEN Answer(Call("profile_get", uid, "select"), 404)
           ELSE Reply(Call("profile_get", uid, "select"), 200,
                      << Without(UserRow(uid), {"password_hash"}) >>) ]
    /\ UNCHANGED <<users, accounts, notifications, verification_codes, verifications>>
    /\ UNCHANGED acctFrame

\* GET /api/profile/:username (either backend): 404 without the row; else
\* the row without password_hash
ProfileByUsername(c, uid, username) ==
    /\ CanCall(c)
    /\ calls' = [ calls EXCEPT ![c] =
           LET call == [ Call("profile_of", uid, "select") EXCEPT !.username = username ]
               found == ByUsername(username)
           IN  IF found = {} THEN Answer(call, 404)
               ELSE Reply(call, 200,
                          << Without(UserRow(CHOOSE u \in found : TRUE),
                                     {"password_hash"}) >>) ]
    /\ UNCHANGED <<users, accounts, notifications, verification_codes, verifications>>
    /\ UNCHANGED acctFrame

\* GET /api/profile/search: the MySQL handler answers the rows of SELECT *
\* as they are; supabase-js selects five columns; the select of the REST
\* shim has no or(), the chain throws (500)
ProfileSearch(c, uid, q) ==
    /\ CanCall(c)
    /\ calls' = [ calls EXCEPT ![c] =
           LET call == [ Call("search", uid, "select") EXCEPT !.target = q ]
           IN  IF backend = "rest_shim" THEN Answer(call, 500)
               ELSE IF backend = "mysql"
                    THEN Reply(call, 200, RowsOf({ UserRow(u) : u \in Matching(q) }))
                    ELSE Reply(call, 200,
                               RowsOf({ Project(UserRow(u), SearchColumns) :
                                          u \in Matching(q) })) ]
    /\ UNCHANGED <<users, accounts, notifications, verification_codes, verifications>>
    /\ UNCHANGED acctFrame

\* GET /api/admin/users, Supabase handler: 403 unless admin; else eight
\* columns of every row; order() of the REST shim is a stub answering no rows
AdminUsers(c, role) ==
    /\ backend # "mysql"
    /\ CanCall(c)
    /\ calls' = [ calls EXCEPT ![c] =
           IF role # "admin"
           THEN Answer(Call("users", role, "select"), 403)
           ELSE Reply(Call("users", role, "select"), 200,
                      IF backend = "rest_shim" THEN << >>
                      ELSE RowsOf({ Project(UserRow(u), AdminUsersColumns) :
                                      u \in DOMAIN accounts })) ]
    /\ UNCHANGED <<users, accounts, notifications, verification_codes, verifications>>
    /\ UNCHANGED acctFrame

----------------------------------------------------------------------------
(* POST /api/posts/:postId/like and /api/stories/:storyId/view, MySQL *)

\* UNIQUE KEY (post_id, user_id) and the foreign keys on the post or story
\* and on the user: whether the table takes the row
SocialAccepts(table, parents, id, uid) ==
    /\ << id, uid >> \notin table
    /\ id \in DOMAIN parents
    /\ uid \in DOMAIN users

\* INSERT IGNORE INTO <table>: a row the keys refuse is dropped without an
\* error
InsertIgnore(table, parents, id, uid) ==
    IF SocialAccepts(table, parents, id, uid)
    THEN table \cup { << id, uid >> }
    ELSE table

\* UPDATE ... SET <count> = <count> + 1 WHERE id = ?
Increment(counts, id) ==
    IF id \in DOMAIN counts THEN [ counts EXCEPT ![id] = @ + 1 ] ELSE counts

\* the tables no social endpoint writes
socialFrame == <<backend, users, tasks, task_views, task_submissions,
                 wallet_transactions, reqs, faults, adminOps, accounts,
                 referrals, notifications, verification_codes, verifications,
                 twin, presented>>

\* INSERT IGNORE INTO post_likes (id, post_id, user_id)
LikeInsert(c, uid, postId) ==
    /\ backend = "mysql"
    /\ CanCall(c)
    /\ post_likes' = InsertIgnore(post_likes, posts, postId, uid)
    /\ calls' = [ calls EXCEPT ![c] =
           [ Call("like", uid, "count") EXCEPT !.target = postId ] ]
    /\ UNCHANGED <<posts, stories, story_views>>
    /\ UNCHANGED socialFrame

\* UPDATE posts SET likes_count = likes_count + 1; res.json(success)
LikeCount(c) ==
    /\ backend = "mysql"
    /\ calls[c].op = "like" /\ calls[c].pc = "count"
    /\ posts' = Increment(posts, calls[c].target)
    /\ calls' = [ calls EXCEPT ![c] = Answer(@, 200) ]
    /\ UNCHANGED <<post_likes, stories, story_views>>
    /\ UNCHANGED socialFrame

\* INSERT IGNORE INTO story_views (id, story_id, user_id)
StoryViewInsert(c, uid, storyId) ==
    /\ backend = "mysql"
    /\ CanCall(c)
    /\ story_views' = InsertIgnore(story_views, stories, storyId, uid)
    /\ calls' = [ calls EXCEPT ![c] =
           [ Call("view", uid, "count") EXCEPT !.target = storyId ] ]
    /\ UNCHANGED <<posts, post_likes, stories>>
    /\ UNCHANGED socialFrame

\* UPDATE stories SET views_count = views_count + 1; res.json(success)
StoryViewCount(c) ==
    /\ backend = "mysql"
    /\ calls[c].op = "view" /\ calls[c].pc = "count"
    /\ stories' = Increment(stories, calls[c].target)
    /\ calls' = [ calls EXCEPT ![c] = Answer(@, 200) ]
    /\ UNCHANGED <<posts, post_likes, story_views>>
    /\ UNCHANGED socialFrame

----------------------------------------------------------------------------
(* GET /api/admin/stats, either backend *)

\* 403 unless req.user.role is admin; else the counts of the tables: the
\* MySQL handler counts four tables, supabase-js two, and the select of the
\* REST shim carries no count, so that both read as 0
AdminStats(c, role) ==
    /\ CanCall(c)
    /\ calls' = [ calls EXCEPT ![c] =
           IF role # "admin"
           THEN Answer(Call("stats", role, "count"), 403)
           ELSE [ Answer(Call("stats", role, "count"), 200) EXCEPT !.body =
                    IF backend = "mysql"
                    THEN << [ total_users |-> Cardinality(DOMAIN users),
                              total_posts |-> Cardinality(DOMAIN posts),
                              active_tasks |-> Cardinality(DOMAIN tasks),
                              pending_submissions |-> Cardinality(task_submissions) ] >>
                    ELSE IF backend = "supabase_js"
                         THEN << [ total_users |-> Cardinality(DOMAIN users),
                                   active_tasks |-> Cardinality(DOMAIN tasks) ] >>
                         ELSE << [ total_users |-> 0, active_tasks |-> 0 ] >> ] ]
    /\ UNCHANGED <<users, accounts, notifications, verification_codes, verifications>>
    /\ UNCHANGED acctFrame

----------------------------------------------------------------------------
(* authenticateToken, the middleware in front of the protected routes *)

\* the mutation of jwtVerify: the expiry of the token is not looked at
jwtVerifyIgnoreExpiration(token, secret) ==
    token.secret = secret

\* jwt.verify(token, JWT_SECRET, callback): err when the signature was not
\* made with the secret or the token is past its expiry
jwtVerify(token, secret) ==
    token.secret = secret /\ ~token.expired

\* const token = authHeader && authHeader.split(' ')[1]; 401 without a
\* token, 403 when jwt.verify fails, else req.user = user and next()
authenticateToken(authHeader) ==
    IF Len(authHeader) < 2
    THEN [ status |-> 401, user |-> << >> ]
    ELSE IF ~jwtVerify(authHeader[2], JWT_SECRET)
         THEN [ status |-> 403, user |-> << >> ]
         ELSE [ status |-> 0,
                user |-> << [ id |-> authHeader[2].id,
                              role |-> authHeader[2].role ] >> ]

\* the response of the middleware ends the request: no handler, no query
Deny(c, status) ==
    /\ CanCall(c)
    /\ calls' = [ calls EXCEPT ![c] = Answer(Call("denied", "-", "gate"), status) ]
    /\ UNCHANGED <<users, accounts, notifications, verification_codes, verifications>>
    /\ UNCHANGED acctFrame

\* req.user of request c, set by the middleware before next()
ReqUser(c) == authenticateToken(presented[c]).user[1]

\* app.<method>(path, authenticateToken, handler): the handler runs, with
\* req.user, when the middleware calls next()
Gated(c, handler) ==
    LET auth == authenticateToken(presented[c])
    IN  IF auth.status # 0 THEN Deny(c, auth.status) ELSE handler

----------------------------------------------------------------------------
(* The two wallet backends side by side: one account with the same balances
   on a MySQL and on a Supabase deployment, the same requests served by
   both, one request at a time and without datastore failures *)

\* the MySQL handlers on deployment d: the submission row is inserted
\* unless the unique key or the foreign key on tasks refuses it, no balance
\* is written; claim-bonus is the one UPDATE
MysqlServes(d, rq) ==
    IF rq.op = "claim"
    THEN [ d EXCEPT !.users = MysqlClaimRow(@) ]
    ELSE IF rq.task \in DOMAIN OpenTasks /\ rq.task \notin d.rows
         THEN [ d EXCEPT !.rows = @ \cup {rq.task} ]
         ELSE d

\* the Supabase submit on deployment d: insert into task_views (a duplicate
\* throws), read the task, read the user, write the three columns
SupabaseSubmits(d, task) ==
    IF task \in d.rows THEN d
    ELSE [ d EXCEPT !.rows = @ \cup {task},
                    !.users = IF task \in DOMAIN OpenTasks
                              THEN PatchRow(@, SubmitUpdateValues(@,
                                       OpenTasks[task].reward_points))
                              ELSE @ ]

\* the Supabase claim-bonus on deployment d: the rpc update is refused (the
\* REST shim throws there), then supabase-js reads the user and writes the
\* two columns
SupabaseClaims(d) ==
    IF backend = "rest_shim" THEN d
    ELSE [ d EXCEPT !.users = PatchRow(@, ClaimUpdateValues(@)) ]

SupabaseServes(d, rq) ==
    IF rq.op = "claim" THEN SupabaseClaims(d) ELSE SupabaseSubmits(d, rq.task)

\* the next request reaches both deployments
TwinServe(rq) ==
    /\ Len(twin.served) < MaxServed
    /\ twin' = [ served |-> Append(twin.served, rq),
                 mysql |-> MysqlServes(twin.mysql, rq),
                 supabase |-> SupabaseServes(twin.supabase, rq) ]
    /\ UNCHANGED <<backend, users, tasks, task_views, task_submissions,
                   wallet_transactions, reqs, faults, adminOps, accounts,
                   referrals, notifications, verification_codes, verifications,
                   calls, presented, socialVars>>

TwinClaimBonus == TwinServe([ op |-> "claim", task |-> "-" ])

TwinSubmit(t) == TwinServe([ op |-> "submit", task |-> t ])

----------------------------------------------------------------------------
(* Specifications *)

NextSupabase ==
    \/ \E r \in ReqIds, uid \in RequestUids, t \in TaskIds : SubmitInsert(r, uid, t)
    \/ \E r \in ReqIds : SubmitReadTask(r)
    \/ \E r \in ReqIds : SubmitReadUser(r)
    \/ \E r \in ReqIds : SubmitUpdate(r)
    \/ \E r \in ReqIds, uid \in RequestUids : ClaimRpcUpdate(r, uid)
    \/ \E r \in ReqIds : ClaimReadUser(r)
    \/ \E r \in ReqIds : ClaimUpdate(r)
    \/ \E t \in TaskIds, body \in CreateBodies : AdminCreateTask(t, body)
    \/ \E t \in TaskIds, body \in PatchBodies : AdminPatchTask(t, body)

NextMysql ==
    \/ \E r \in ReqIds, uid \in RequestUids, t \in TaskIds : MysqlSubmit(r, uid, t)
    \/ \E r \in ReqIds, uid \in RequestUids : MysqlClaimBonus(r, uid)

InitSupabase ==
    Init /\ backend \in {"supabase_js", "rest_shim"}

InitMysql ==
    Init /\ backend = "mysql"

\* the Supabase handlers, on either client
SpecSupabase == InitSupabase /\ [][NextSupabase]_vars

\* the MySQL handlers
SpecMysql == InitMysql /\ [][NextMysql]_vars

\* the MySQL handlers with one of the tasks closed
InitMysqlClosedTask ==
    /\ InitTables
    /\ InitVerified
    /\ backend = "mysql"
    /\ tasks = [ t \in InitialTaskIds |->
                   [ OpenTasks[t] EXCEPT !.is_active = t \notin ClosedTaskIds ] ]
    /\ users = [ u \in UserIds |-> ZeroBalances ]

SpecMysqlClosedTask == InitMysqlClosedTask /\ [][NextMysql]_vars

Next == NextSupabase \/ NextMysql

\* the wallet summary among the claim-bonus requests of both backends and
\* the MySQL submits
NextSummary ==
    \/ NextMysql
    \/ \E r \in ReqIds, uid \in RequestUids : ClaimRpcUpdate(r, uid)
    \/ \E r \in ReqIds : ClaimReadUser(r)
    \/ \E r \in ReqIds : ClaimUpdate(r)
    \/ \E c \in CallIds, uid \in RequestUids : SupabaseSummary(c, uid)
    \/ \E c \in CallIds, uid \in RequestUids : MysqlSummary(c, uid)

SpecSummary == Init /\ [][NextSummary]_vars

\* the account endpoints of both backends and the wallet summary
NextAccounts ==
    \/ \E c \in CallIds, n \in SignupNames, code \in PresentedCodes :
           SignupCheckUsername(c, n, code)
    \/ \E c \in CallIds : SignupFindReferrer(c)
    \/ \E c \in CallIds : \E ref_code \in GenCodes(c) : SignupInsert(c, ref_code)
    \/ \E c \in CallIds, n \in SignupNames, code \in PresentedCodes :
           MysqlSignupBegin(c, n, code)
    \/ \E c \in CallIds : MysqlSignupFindReferrer(c)
    \/ \E c \in CallIds : \E ref_code \in GenCodes(c) : MysqlSignupInsert(c, ref_code)
    \/ \E c \in CallIds, uid \in CallerIds(users), body \in ProfileBodies :
           ProfileUpdate(c, uid, body)
    \/ \E c \in CallIds, uid \in CallerIds(users), pw \in Passwords :
           PasswordCheck(c, uid, pw)
    \/ \E c \in CallIds, pw \in Passwords : PasswordUpdate(c, pw)
    \/ \E c \in CallIds, uid \in CallerIds(users), type \in VerificationTypes,
          code \in Codes : SendVerification(c, uid, type, code)
    \/ \E c \in CallIds, uid \in CallerIds(users), type \in VerificationTypes,
          code \in Codes, expired \in BOOLEAN :
           VerifyCodeLookup(c, uid, type, code, expired)
    \/ \E c \in CallIds : VerifyCodeMark(c)
    \/ \E c \in CallIds : VerifyCodeDelete(c)
    \/ \E c \in CallIds, role \in Roles, uid \in DOMAIN users, b \in BOOLEAN :
           AdminBan(c, role, uid, b)
    \/ \E c \in CallIds, uid \in CallerIds(users), type \in VerificationTypes :
           VerificationRequest(c, uid, type)
    \/ \E c \in CallIds, role \in Roles, v \in verifications :
           AdminApprove(c, role, v.id)
    \/ \E c \in CallIds : AdminApproveBadge(c)
    \/ \E c \in CallIds, uid \in CallerIds(users), n \in DOMAIN notifications :
           NotificationRead(c, uid, n)
    \/ \E c \in CallIds, uid \in CallerIds(users) : NotificationReadAll(c, uid)
    \/ \E c \in CallIds, uid \in CallerIds(users) : SupabaseSummary(c, uid)
    \/ \E c \in CallIds, uid \in CallerIds(users) : MysqlSummary(c, uid)

\* the balances one served claim-bonus leaves on a new account: both
\* columns raised by supabase-js, available_points alone by MySQL, nothing
\* by the REST shim (its claim-bonus always throws)
ClaimedBalances ==
    IF backend = "supabase_js"
    THEN [ ZeroBalances EXCEPT !.available_points = VerificationBonus,
                               !.total_points = VerificationBonus ]
    ELSE IF backend = "mysql"
         THEN [ ZeroBalances EXCEPT !.available_points = VerificationBonus ]
         ELSE ZeroBalances

\* the account endpoints start on a new account or on one that has claimed
\* its bonus
InitAccounts ==
    /\ InitTables
    /\ InitVerified
    /\ tasks = OpenTasks
    /\ \E b \in {ZeroBalances, ClaimedBalances} : users = [ u \in UserIds |-> b ]

SpecAccounts == InitAccounts /\ [][NextAccounts]_vars

Spec == Init /\ [][Next]_vars

\* the same requests on a MySQL and on a Supabase deployment
NextTwin ==
    \/ TwinClaimBonus
    \/ \E t \in TaskIds : TwinSubmit(t)

InitTwin ==
    Init /\ backend \in {"supabase_js", "rest_shim"}

SpecTwin == InitTwin /\ [][NextTwin]_vars

\* protected routes behind the middleware, the requests carrying any header
NextGate ==
    \/ \E c \in CallIds, body \in ProfileBodies :
           Gated(c, ProfileUpdate(c, ReqUser(c).id, body))
    \/ \E c \in CallIds, n \in DOMAIN notifications :
           Gated(c, NotificationRead(c, ReqUser(c).id, n))
    \/ \E c \in CallIds, type \in VerificationTypes :
           Gated(c, VerificationRequest(c, ReqUser(c).id, type))
    \/ \E c \in CallIds, uid \in DOMAIN users, b \in BOOLEAN :
           Gated(c, AdminBan(c, ReqUser(c).role, uid, b))
    \/ \E c \in CallIds, v \in verifications :
           Gated(c, AdminApprove(c, ReqUser(c).role, v.id))
    \/ \E c \in CallIds : AdminApproveBadge(c)
    \/ \E c \in CallIds : Gated(c, AdminStats(c, ReqUser(c).role))
    \/ \E c \in CallIds : Gated(c, AdminUsers(c, ReqUser(c).role))

InitGate ==
    /\ InitTables
    /\ tasks = OpenTasks
    /\ users = [ u \in UserIds |-> ZeroBalances ]
    /\ verification_codes = {}
    /\ presented \in [ CallIds -> Headers ]

SpecGate == InitGate /\ [][NextGate]_vars

\* the like and story-view endpoints of the MySQL backend
NextSocial ==
    \/ \E c \in CallIds, uid \in CallerIds(users), p \in PostIds \cup {"p9"} :
           LikeInsert(c, uid, p)
    \/ \E c \in CallIds : LikeCount(c)
    \/ \E c \in CallIds, uid \in CallerIds(users), st \in StoryIds \cup {"s9"} :
           StoryViewInsert(c, uid, st)
    \/ \E c \in CallIds : StoryViewCount(c)

InitSocial ==
    Init /\ backend = "mysql"

SpecSocial == InitSocial /\ [][NextSocial]_vars

\* the verification-code endpoints after a code was sent to the account
NextVerification ==
    \/ \E c \in CallIds, uid \in CallerIds(users), type \in VerificationTypes,
          code \in Codes : SendVerification(c, uid, type, code)
    \/ \E c \in CallIds, uid \in CallerIds(users), type \in VerificationTypes,
          code \in Codes, expired \in BOOLEAN :
           VerifyCodeLookup(c, uid, type, code, expired)
    \/ \E c \in CallIds : VerifyCodeMark(c)
    \/ \E c \in CallIds : VerifyCodeDelete(c)

\* the row an earlier send-verification of the account stored
SentCode == [ user_id |-> "A", type |-> "email", code |-> "111111" ]

InitVerification ==
    /\ InitTables
    /\ backend # "mysql"
    /\ tasks = OpenTasks
    /\ users = [ u \in UserIds |-> ZeroBalances ]
    /\ verification_codes \in {{}, {SentCode}}
    /\ presented = [ c \in CallIds |-> Bearer(LoginToken) ]

SpecVerification == InitVerification /\ [][NextVerification]_vars

\* the endpoints answering rows of users, and one that rewrites them
NextProfiles ==
    \/ \E c \in CallIds, n \in SignupNames, pw \in Passwords : Login(c, n, pw)
    \/ \E c \in CallIds, uid \in CallerIds(users) : ProfileGet(c, uid)
    \/ \E c \in CallIds, uid \in CallerIds(users), n \in SignupNames :
           ProfileByUsername(c, uid, n)
    \/ \E c \in CallIds, uid \in CallerIds(users), q \in SearchTerms :
           ProfileSearch(c, uid, q)
    \/ \E c \in CallIds, uid \in CallerIds(users), body \in ProfileBodies :
           ProfileUpdate(c, uid, body)

SpecProfiles == InitAccounts /\ [][NextProfiles]_vars

----------------------------------------------------------------------------
(* Vocabulary of the properties *)

Started == { r \in ReqIds : reqs[r].op # "none" }

Quiescent == \A r \in ReqIds : ~InFlight(r)

Succeeded(r) == reqs[r].pc = "done" /\ reqs[r].status \in {200, 201}

Failed(r) == reqs[r].pc = "done" /\ reqs[r].status = 500

\* no datastore call failed and no admin edited a task
NoEnvEvents == faults = 0 /\ adminOps = 0

RECURSIVE SumRewards(_)
\* the sum of the current reward_points of the tasks of the requests in S
SumRewards(S) ==
    IF S = {} THEN 0
    ELSE LET r == CHOOSE x \in S : TRUE
         IN  tasks[reqs[r].task].reward_points + SumRewards(S \ {r})

\* the submission rows of either backend
SubmissionRows == task_views \cup task_submissions

RECURSIVE SumRowRewards(_)
\* the sum of the current reward_points of the tasks of the rows in R
SumRowRewards(R) ==
    IF R = {} THEN 0
    ELSE LET row == CHOOSE x \in R : TRUE
         IN  (IF row.task_id \in DOMAIN tasks
              THEN tasks[row.task_id].reward_points ELSE 0)
             + SumRowRewards(R \ {row})

----------------------------------------------------------------------------
(* C1 *)

\* C1: no lost updates. When every request served is a successful submit by
\* the same account, for pairwise distinct existing tasks, and no datastore
\* call failed and no task was edited, the account's total_points,
\* available_points and total_earned equal the initial 0 plus the sum of the
\* tasks' reward_points (30 and 40 end at 70).
C1_NoLostUpdates ==
    \A a \in UserIds :
        ( /\ Started # {}
          /\ NoEnvEvents
          /\ \A r \in Started :
                /\ reqs[r].op = "submit"
                /\ reqs[r].uid = a
                /\ reqs[r].task \in DOMAIN tasks
                /\ reqs[r].pc = "done" /\ reqs[r].status = 201
          /\ \A r1, r2 \in Started : r1 # r2 => reqs[r1].task # reqs[r2].task )
        => /\ users[a].total_points = SumRewards(Started)
           /\ users[a].available_points = SumRewards(Started)
           /\ users[a].total_earned = SumRewards(Started)

----------------------------------------------------------------------------
(* C2 *)

----------------------------------------------------------------------------
(* C3 *)

\* C3: idempotent task claim. When every request served is a completed
\* submit of the same account for the same existing task, and no datastore
\* call failed and no task was edited, exactly one of them succeeded and
\* the account's balances hold exactly one credit of the task's
\* reward_points.
C3_IdempotentTaskClaim ==
    \A a \in UserIds, t \in DOMAIN tasks :
        ( /\ Started # {}
          /\ NoEnvEvents
          /\ \A r \in Started :
                /\ reqs[r].op = "submit"
                /\ reqs[r].uid = a
                /\ reqs[r].task = t
                /\ reqs[r].pc = "done" )
        => /\ Cardinality({ r \in Started : Succeeded(r) }) = 1
           /\ users[a].total_points = tasks[t].reward_points
           /\ users[a].available_points = tasks[t].reward_points
           /\ users[a].total_earned = tasks[t].reward_points

----------------------------------------------------------------------------
(* C4 *)

\* C4: the verification bonus is claimable once. At most one claim-bonus
\* request of an account succeeds, and the account's available_points hold
\* at most one 20-point bonus when claims are all that was served.
C4_BonusClaimedOnce ==
    \A a \in UserIds :
        /\ Cardinality({ r \in ReqIds : reqs[r].op = "claim" /\ reqs[r].uid = a
                                         /\ Succeeded(r) }) <= 1
        /\ (\A r \in Started : reqs[r].op = "claim")
              => users[a].available_points <= VerificationBonus

----------------------------------------------------------------------------
(* C5 *)

\* C5: conservation. In every reachable state each account satisfies
\* total_points = total_earned - total_spent.
C5_Conservation ==
    \A a \in DOMAIN users :
        users[a].total_points = users[a].total_earned - users[a].total_spent

----------------------------------------------------------------------------
(* C6 *)

\* C6: no partial application of a task credit. In every state in which no
\* request is in progress (and no task was edited), what an account has
\* earned is the sum of the reward_points of the tasks it has a submission
\* row for: no row exists without its credit, no credit without its row.
C6_NoPartialApplication ==
    (Quiescent /\ adminOps = 0) =>
        \A a \in UserIds :
            users[a].total_earned =
                SumRowRewards({ row \in SubmissionRows : row.user_id = a })

----------------------------------------------------------------------------
(* C7 *)

\* C7: mixed-operation atomicity. When a claim-bonus and a task submit of
\* the same account both succeeded (with no datastore failure and no task
\* edit), the account's available_points and total_points equal the initial
\* 0 plus 20 plus the task's reward_points.
C7_MixedAtomicity ==
    \A a \in UserIds :
        \A r1, r2 \in ReqIds :
            ( /\ NoEnvEvents
              /\ Started = {r1, r2}
              /\ reqs[r1].op = "claim" /\ reqs[r1].uid = a /\ Succeeded(r1)
              /\ reqs[r2].op = "submit" /\ reqs[r2].uid = a /\ Succeeded(r2)
              /\ reqs[r2].task \in DOMAIN tasks )
            => /\ users[a].available_points =
                      VerificationBonus + tasks[reqs[r2].task].reward_points
               /\ users[a].total_points =
                      VerificationBonus + tasks[reqs[r2].task].reward_points

----------------------------------------------------------------------------
(* C8 *)

\* C8: one ledger event per credit. For every account the number of
\* task_earning rows of wallet_transactions equals the number of its
\* successful submits of an existing task.
C8_OneEventPerCredit ==
    \A a \in UserIds :
        Cardinality({ e \in wallet_transactions :
                        e.user_id = a /\ e.transaction_type = "task_earning" })
        = Cardinality({ r \in ReqIds : /\ reqs[r].op = "submit"
                                       /\ reqs[r].uid = a
                                       /\ reqs[r].task \in DOMAIN tasks
                                       /\ Succeeded(r) })

----------------------------------------------------------------------------
(* C9 *)

\* C9: task credit effect. When the only request served is a successful
\* submit by an account for an existing task with reward_points = r (no
\* datastore failure, no task edit), available_points, total_points and
\* total_earned are each r above their values before the request, and
\* pending_points and total_spent are unchanged; the wallet summary shows
\* these values.
C9_TaskCreditEffect ==
    \A a \in UserIds :
        ( /\ NoEnvEvents
          /\ Started = {1}
          /\ reqs[1].op = "submit" /\ reqs[1].uid = a /\ Succeeded(1)
          /\ reqs[1].task \in DOMAIN tasks )
        => LET r   == tasks[reqs[1].task].reward_points
               was == reqs[1].before[1]
               now == WalletSummary(a)[1]
           IN  /\ now.available_points = was.available_points + r
               /\ now.total_points = was.total_points + r
               /\ now.total_earned = was.total_earned + r
               /\ now.pending_points = was.pending_points
               /\ now.total_spent = was.total_spent

----------------------------------------------------------------------------
(* C10 *)

\* C10: non-negative balances. In every reachable state, also after submits
\* for tasks created or edited through the admin task endpoints, every
\* account has available_points >= 0.
C10_NonNegativeBalances ==
    \A a \in DOMAIN users : users[a].available_points >= 0

----------------------------------------------------------------------------
(* C11 *)

\* C11: balance bound. In every state reachable by task submits and
\* claim-bonus requests, each account satisfies
\* available_points + pending_points <= total_points.
C11_BalanceBound ==
    \A a \in DOMAIN users :
        users[a].available_points + users[a].pending_points
            <= users[a].total_points

----------------------------------------------------------------------------
(* C12 *)

\* C12: verification bonus effect. When the only request served is a
\* successful claim-bonus by an existing account (no datastore failure),
\* available_points and total_points are each 20 above their values before
\* the request, and wallet_transactions holds exactly one verification_bonus
\* event of that account.
C12_BonusEffect ==
    \A a \in UserIds :
        ( /\ NoEnvEvents
          /\ Started = {1}
          /\ reqs[1].op = "claim" /\ reqs[1].uid = a /\ Succeeded(1) )
        => LET was == reqs[1].before[1]
               now == users[a]
           IN  /\ now.available_points = was.available_points + VerificationBonus
               /\ now.total_points = was.total_points + VerificationBonus
               /\ Cardinality({ e \in wallet_transactions :
                                  /\ e.user_id = a
                                  /\ e.transaction_type = "verification_bonus" }) = 1

----------------------------------------------------------------------------
(* C13 *)

\* C13: a submit whose insert was refused by the unique key on
\* (task_id, user_id) answers 409, a status different from the 500 of a
\* generic datastore failure.
C13_DuplicateIsConflict ==
    \A r \in ReqIds :
        (reqs[r].pc = "done" /\ reqs[r].op = "submit" /\ reqs[r].dberr = "duplicate")
        => reqs[r].status = 409

----------------------------------------------------------------------------
(* C14 *)

\* C14: a submit that starts while its task is missing or inactive answers
\* with a failure at once, inserts no submission row and changes no balance.
C14_UnavailableTaskRejected ==
    [][ \A r \in ReqIds :
          ( /\ reqs[r].op = "none"
            /\ reqs'[r].op = "submit"
            /\ Unavailable(reqs'[r].task) )
          => /\ reqs'[r].pc = "done"
             /\ reqs'[r].status \notin {200, 201}
             /\ task_views' = task_views
             /\ task_submissions' = task_submissions
             /\ users' = users ]_vars

----------------------------------------------------------------------------
(* C16 *)

\* C16: when the datastore answers the balance update of a submit or a
\* claim-bonus with an error, the request answers with a failure, never
\* with 200 or 201.
C16_UpdateErrorSurfaces ==
    \A r \in ReqIds :
        (reqs[r].pc = "done" /\ reqs[r].failedCall = "update")
        => reqs[r].status \notin {200, 201}

----------------------------------------------------------------------------
(* C15 *)

\* C15: for an account id with no users row, a finished wallet summary is
\* a failure (never a success, with or without body), and a finished
\* submit is a failure that left no submission row.
C15_AccountNotFound ==
    /\ \A c \in CallIds :
         ( /\ calls[c].op = "summary" /\ calls[c].pc = "done"
           /\ calls[c].uid \notin DOMAIN users )
         => calls[c].status \notin {200, 201}
    /\ \A r \in ReqIds :
         ( /\ reqs[r].op = "submit" /\ reqs[r].pc = "done"
           /\ reqs[r].uid \notin DOMAIN users )
         => /\ reqs[r].status \notin {200, 201}
            /\ \A row \in SubmissionRows : row.id # r

----------------------------------------------------------------------------
(* C17 *)

\* C17: the step that serves a wallet summary changes no users, submission,
\* ledger, referral or account row, and a successful answer for an existing
\* account carries exactly the five stored balance values of that account.
C17_SummaryReadOnly ==
    [][ \A c \in CallIds :
          (calls[c].op = "none" /\ calls'[c].op = "summary")
          => /\ users' = users
             /\ accounts' = accounts
             /\ task_views' = task_views
             /\ task_submissions' = task_submissions
             /\ wallet_transactions' = wallet_transactions
             /\ referrals' = referrals
             /\ ( (calls'[c].status = 200 /\ calls'[c].uid \in DOMAIN users)
                  => LET row == users[calls'[c].uid]
                         got == calls'[c].body
                     IN  /\ Len(got) = 1
                         /\ got[1].total_points = row.total_points
                         /\ got[1].available_points = row.available_points
                         /\ got[1].pending_points = row.pending_points
                         /\ got[1].total_earned = row.total_earned
                         /\ got[1].total_spent = row.total_spent ) ]_vars

\* a summary answered the balances of an account that had claimed a bonus
C17_Witness ==
    \E c \in CallIds :
        /\ calls[c].op = "summary" /\ calls[c].status = 200
        /\ Len(calls[c].body) = 1
        /\ calls[c].body[1].available_points = VerificationBonus

----------------------------------------------------------------------------
(* C18 *)

\* the endpoints that are not ledger operations
NonLedgerOps ==
    {"profile", "password", "send", "verify", "ban", "request", "approve",
     "read", "read_all"}

\* C18: a step of a profile update, password change, code verification,
\* admin ban, admin verification approval or notification read leaves the
\* five balance columns of every account unchanged.
C18_OnlyLedgerWritesBalances ==
    [][ \A c \in CallIds :
          (calls'[c] # calls[c] /\ calls'[c].op \in NonLedgerOps)
          => /\ DOMAIN users' = DOMAIN users
             /\ \A u \in DOMAIN users :
                  /\ users'[u].total_points = users[u].total_points
                  /\ users'[u].available_points = users[u].available_points
                  /\ users'[u].pending_points = users[u].pending_points
                  /\ users'[u].total_earned = users[u].total_earned
                  /\ users'[u].total_spent = users[u].total_spent ]_vars

\* an account holding its claimed bonus was verified by code and had its
\* profile updated
C18_Witness ==
    \E u \in DOMAIN users :
        /\ users[u].available_points = VerificationBonus
        /\ accounts[u].has_blue_badge
        /\ \E c \in CallIds :
             calls[c].op = "verify" /\ calls[c].status = 200 /\ calls[c].uid = u

----------------------------------------------------------------------------
(* C19 *)

\* C19: after a successful signup that resolved its referral code to a
\* referrer R, the referrals table holds exactly one row (R, new account).
C19_ReferralEdgeOnce ==
    \A c \in CallIds :
        ( /\ calls[c].op = "signup" /\ calls[c].status = 201
          /\ calls[c].referred_by # "null" )
        => Cardinality({ e \in referrals :
                           /\ e.referrer_id = calls[c].referred_by
                           /\ e.referred_id = calls[c].uid }) = 1

----------------------------------------------------------------------------
(* C20 *)

\* C20: no step changes the referred_by of an account that exists.
C20_ReferredByFixed ==
    [][ \A u \in DOMAIN accounts :
          /\ u \in DOMAIN accounts'
          /\ accounts'[u].referred_by = accounts[u].referred_by ]_vars

\* an account signed up with a referrer and has since updated its profile
\* with a body that names referred_by
C20_Witness ==
    \E u \in DOMAIN accounts :
        /\ accounts[u].referred_by = "A"
        /\ accounts[u].full_name = "Mallory"

----------------------------------------------------------------------------
(* C21 *)

\* C21: a step that creates an account leaves the new row with
\* total_points, available_points, pending_points, total_earned and
\* total_spent all 0, although the signup body names other values for them.
C21_SignupZeroBalances ==
    [][ \A u \in DOMAIN users' \ DOMAIN users :
          /\ users'[u].total_points = 0
          /\ users'[u].available_points = 0
          /\ users'[u].pending_points = 0
          /\ users'[u].total_earned = 0
          /\ users'[u].total_spent = 0 ]_vars

\* a signup was answered 201 and its account exists
C21_Witness ==
    \E c \in CallIds :
        /\ calls[c].op = "signup" /\ calls[c].status = 201
        /\ calls[c].uid \in DOMAIN users
        /\ accounts[calls[c].uid].full_name = "New"

----------------------------------------------------------------------------
(* C22 *)

\* the signup call that owns account id u
SignupOf(u) == CHOOSE c \in CallIds : calls[c].op = "signup" /\ calls[c].uid = u

\* C22: the step that creates an account stores a referred_by that is null
\* or the id of another account that exists already and whose referral_code
\* is the presented code; and a referrer lookup whose code matches no
\* account goes on to the insert with referred_by null.
C22_ReferralResolution ==
    [][ /\ \A u \in DOMAIN accounts' \ DOMAIN accounts :
             LET by == accounts'[u].referred_by
             IN  \/ by = "null"
                 \/ /\ by # u
                    /\ by \in DOMAIN accounts
                    /\ accounts[by].referral_code = calls[SignupOf(u)].code
        /\ \A c \in CallIds :
             ( /\ calls[c].op = "signup" /\ calls[c].pc = "referrer"
               /\ calls'[c] # calls[c]
               /\ \A u \in DOMAIN accounts :
                    accounts[u].referral_code # calls[c].code )
             => /\ calls'[c].pc = "insert"
                /\ calls'[c].referred_by = "null" ]_vars

\* a signup that presented the code of account A was accepted and its
\* account names A as referrer
C22_Witness ==
    \E c \in CallIds :
        /\ calls[c].op = "signup" /\ calls[c].status = 201
        /\ calls[c].code = "RA"
        /\ accounts[calls[c].uid].referred_by = "A"
        /\ accounts["A"].referral_code = "RA"

----------------------------------------------------------------------------
(* C23 *)

----------------------------------------------------------------------------
(* C24 *)

\* C24: a signup answered 409 'Username already taken' has its username
\* carried by an account other than its own.
C24_ConflictMeansUsernameTaken ==
    \A c \in CallIds :
        (calls[c].op = "signup" /\ calls[c].status = 409)
        => \E u \in DOMAIN accounts \ {calls[c].uid} :
               accounts[u].username = calls[c].username

\* C25: the two wallet backends agree: after the same sequence of submit
\* and claim-bonus requests from the same balances, the five balance
\* columns of the account are the same on both.
C25_BackendsAgree ==
    twin.mysql.users = twin.supabase.users

\* the header carries no token
NoToken(authHeader) == Len(authHeader) < 2

\* the header carries a token signed with the secret and not expired
TokenVerifies(authHeader) ==
    /\ Len(authHeader) = 2
    /\ authHeader[2].secret = JWT_SECRET
    /\ ~authHeader[2].expired

\* every table of the datastore
tables == <<users, accounts, tasks, task_views, task_submissions,
            wallet_transactions, referrals, notifications, verification_codes,
            verifications, posts, post_likes, stories, story_views>>

\* C26: a request to a protected route without a token is answered 401, one
\* with a token that does not verify is answered 403; in both cases the
\* route's handler is not invoked and no table changes.
C26_AuthGate ==
    [][ \A c \in CallIds :
          (calls[c].op = "none" /\ calls'[c].op # "none"
             /\ ~TokenVerifies(presented[c]))
          => /\ calls'[c].status = IF NoToken(presented[c]) THEN 401 ELSE 403
             /\ calls'[c].op = "denied"
             /\ calls'[c].pc = "done"
             /\ UNCHANGED tables ]_vars

C26_Witness ==
    \E c, d \in CallIds :
        /\ calls[c].op = "denied" /\ calls[c].status = 401
        /\ presented[c] = << >>
        /\ calls[d].op = "denied" /\ calls[d].status = 403
        /\ presented[d] = Bearer(generateToken("A", "admin", TRUE))

\* the endpoints under /api/admin
AdminOps == {"ban", "approve", "stats", "users"}

C30_NoPasswordHash ==
    \A c \in CallIds : \A i \in 1..Len(calls[c].body) :
        "password_hash" \notin DOMAIN calls[c].body[i]

\* C28: a verification code is single-use: once a verify-code with it has
\* succeeded, another verify-code with the same code succeeds only if a
\* new code was sent.
C28_CodeSingleUse ==
    \A c, d \in CallIds :
        (c # d
           /\ calls[c].op = "verify" /\ calls[c].status = 200
           /\ calls[d].op = "verify" /\ calls[d].status = 200
           /\ calls[c].uid = calls[d].uid
           /\ calls[c].target = calls[d].target
           /\ calls[c].code = calls[d].code)
        => \E e \in CallIds :
               /\ calls[e].op = "send" /\ calls[e].status = 200
               /\ calls[e].uid = calls[c].uid

\* the rows of the table for the given post or story
RowsFor(table, id) == { row \in table : row[1] = id }

\* no like or view request is between its insert and its count
SocialQuiescent ==
    \A c \in CallIds : calls[c].op \in {"like", "view"} => calls[c].pc = "done"

\* C29: once the like and view requests have been answered, likes_count of
\* every post is the number of its post_likes rows and views_count of every
\* story is the number of its story_views rows.
C29_CountsMatchRows ==
    SocialQuiescent =>
        /\ \A p \in DOMAIN posts : posts[p] = Cardinality(RowsFor(post_likes, p))
        /\ \A st \in DOMAIN stories :
               stories[st] = Cardinality(RowsFor(story_views, st))

====
